---- MODULE Spec2Model ----
(***************************************************************************)
(* Model of OpenEngine's OBJResource (Resources/OBJResource.cpp): the      *)
(* OBJ/MTL loader with its FaceSet, material map, scene node and the       *)
(* process-wide numeric locale it touches.  Load() is modelled as a        *)
(* sequential process: one step per iteration of its line loops.           *)
(***************************************************************************)
EXTENDS Integers, Sequences, FiniteSets, TLC

\* ------------------------------------------------------------------ bounds
MaxRead == 5         \* getline calls made on behalf of one resource

\* --------------------------------------------------------------- constants
BufSize == 255       \* char buffer[255] / getline(buffer, 255)

NULL == "NULL"       \* a null ISceneNode* / resource pointer
GARBAGE == "GARBAGE" \* some other pointer value
UNINIT == "UNINIT"   \* a pointer member no constructor has assigned
NoMat == 0           \* a null MaterialPtr (materials are 1.. in the heap)
GarbageValue == -1   \* what an out-of-bounds read of a raw stream yields

\* ------------------------------------------------------------------ locale
Locales == {"C", "de_DE"}

DecimalPoint(l) == IF l = "C" THEN "." ELSE ","

\* setlocale(LC_NUMERIC, name): an unknown locale name leaves the locale as
\* it is (setlocale returns NULL).
setlocale(cur, name) == IF name \in Locales THEN name ELSE cur

\* ------------------------------------------------------------------- paths
ObjDir == "models/"
ObjName == "box.obj"
ObjPath == <<ObjDir, ObjName>>

\* File::Parent(path) as used by the loader: the directory part.
Parent(path) == <<path[1]>>

\* File::Parent(file) + res
Join(dir, res) == <<dir[1], res>>



\* ------------------------------------------------------ OBJ lines (input)
\* A line of text is represented by what the scanners look at: its leading
\* characters (kw), the number of float fields after the keyword (nf) and
\* their value (val), the corner tokens of a face (toks), the names after
\* mtllib/usemtl (names), and whether it has BufSize-1 or more characters.
ObjLine(kw, nf, val, toks, names, long) ==
    [kw |-> kw, nf |-> nf, val |-> val, toks |-> toks, names |-> names,
     long |-> long]

EmptyLine == ObjLine("", 0, 0, <<>>, <<>>, FALSE)

\* a corner token: form is one of "p/t/n", "p//n", "p", "p/t", "x"
Corner(form, p, t, n) == [form |-> form, p |-> p, t |-> t, n |-> n]

\* The face lines offered: all three corners alike, with a position index
\* of 0, 1 or one past the nv positions declared, in each corner encoding;
\* lines mixing encodings; and lines with four and with two corner tokens.
UniformFaces(nv) ==
    {<<c, c, c>> : c \in {Corner("p/t/n", p, 1, 1) : p \in {0, 1, nv + 1}}
                     \cup {Corner("p//n", 1, 0, 1), Corner("p", 1, 0, 0),
                           Corner("p/t", 1, 1, 0), Corner("x", 0, 0, 0)}}

MixedFaces ==
    {<<Corner("p/t/n", 1, 1, 1), Corner("p/t/n", 1, 1, 1),
       Corner("p//n", 1, 0, 1)>>,
     <<Corner("p", 1, 0, 0), Corner("p", 1, 0, 0),
       Corner("p/t/n", 1, 1, 1)>>}

OtherFaces ==
    {<<Corner("p/t/n", 1, 1, 1), Corner("p/t/n", 1, 1, 1),
       Corner("p/t/n", 1, 1, 1), Corner("p/t/n", 1, 1, 1)>>,
     <<Corner("p/t/n", 1, 1, 1), Corner("p/t/n", 1, 1, 1)>>}

FaceTokens(nv) == UniformFaces(nv) \cup MixedFaces \cup OtherFaces

\* The lines an OBJ file may hold next, given the raw streams declared so
\* far (nv, nn, nt entries).
\* The k-th v, vt or vn line carries the value k (0 would be the zero
\* vector).
ObjLines(nv, nn, nt) ==
    {EmptyLine,
     ObjLine("#", 0, 0, <<>>, <<>>, FALSE),
     ObjLine("#", 0, 0, <<>>, <<>>, TRUE),
     ObjLine("s ", 0, 0, <<>>, <<>>, FALSE),
     ObjLine("o ", 0, 0, <<>>, <<>>, FALSE),
     ObjLine("v ", 2, 0, <<>>, <<>>, FALSE),
     ObjLine("usemtl", 0, 0, <<>>, <<"A">>, FALSE)}
    \cup {ObjLine("v ", 3, nv + 1, <<>>, <<>>, FALSE),
          ObjLine("vt", 2, nt + 1, <<>>, <<>>, FALSE),
          ObjLine("vn", 3, nn + 1, <<>>, <<>>, FALSE),
          ObjLine("mtllib", 0, 0, <<>>, <<"a.mtl">>, FALSE),
          ObjLine("mtllib", 0, 0, <<>>, <<"a.mtl", "b.mtl">>, FALSE)}
    \cup {ObjLine("f ", 0, 0, t, <<>>, FALSE) : t \in FaceTokens(nv)}

\* first character of the buffer
FirstChar(l) ==
    CASE l.kw = "" -> ""
      [] l.kw = "#" -> "#"
      [] l.kw = "s " -> "s"
      [] l.kw = "o " -> "o"
      [] l.kw \in {"v ", "vt", "vn"} -> "v"
      [] l.kw = "f " -> "f"
      [] l.kw = "mtllib" -> "m"
      [] l.kw = "usemtl" -> "u"

\* string(buffer, 2) and string(buffer, 6)
Prefix2(l) ==
    CASE l.kw \in {"", "#"} -> l.kw
      [] l.kw = "mtllib" -> "mt"
      [] l.kw = "usemtl" -> "us"
      [] OTHER -> l.kw

Prefix6(l) == IF l.kw \in {"mtllib", "usemtl"} THEN l.kw ELSE ""

\* -------------------------------------------------------- istream::getline
\* Stream state bits of the ifstream.
GoodStream == [eof |-> FALSE, fail |-> FALSE]

\* in->getline(buffer, BufSize) on a stream whose next line is l; last says
\* whether the file ends after l without a newline.  Result: the stream
\* state, the buffer contents and gcount (abstracted: 0, 1, 3 = "more than
\* two", BufSize - 1).
getline(in, l, last) ==
    IF in.fail \/ in.eof
    THEN [in |-> [in EXCEPT !.fail = TRUE], buffer |-> EmptyLine, gcount |-> 0]
    ELSE IF l.long
    THEN [in |-> [in EXCEPT !.fail = TRUE], buffer |-> l,
          gcount |-> BufSize - 1]
    ELSE IF last
    THEN [in |-> [eof |-> TRUE, fail |-> (l.kw = "")], buffer |-> l,
          gcount |-> IF l.kw = "" THEN 0 ELSE 3]
    ELSE [in |-> in, buffer |-> l, gcount |-> IF l.kw = "" THEN 1 ELSE 3]

\* Whether the file may end right after line l: the files considered end with
\* a newline, so end of file is met by a read that extracts nothing.
Lasts(l) == IF l.kw = "" THEN BOOLEAN ELSE {FALSE}

\* ----------------------------------------------------------- face scanning
ZeroF == [i \in 1..9 |-> 0]

\* number of leading corners of toks that pattern pat consumes completely
RECURSIVE FullMatches(_, _, _)
FullMatches(pat, toks, c) ==
    IF c > 3 \/ c > Len(toks) THEN 0
    ELSE LET ok == CASE pat = 1 -> toks[c].form = "p/t/n"
                     [] pat = 2 -> toks[c].form = "p//n"
                     [] pat = 3 -> IF c < 3 THEN toks[c].form = "p"
                                   ELSE toks[c].form # "x"
         IN IF ok THEN 1 + FullMatches(pat, toks, c + 1) ELSE 0

\* the integers corner token tok yields under pattern pat, as
\* <<slot within corner, value>> pairs, when the token matches completely
CornerInts(pat, tok) ==
    CASE pat = 1 -> <<<<1, tok.p>>, <<2, tok.t>>, <<3, tok.n>>>>
      [] pat = 2 -> <<<<1, tok.p>>, <<3, tok.n>>>>
      [] pat = 3 -> <<<<1, tok.p>>>>

\* ... and when the conversion stops inside the token
PartialInts(pat, tok) ==
    CASE tok.form = "x" -> <<>>
      [] pat = 1 /\ tok.form = "p/t" -> <<<<1, tok.p>>, <<2, tok.t>>>>
      [] OTHER -> <<<<1, tok.p>>>>

RECURSIVE Store(_, _, _)
Store(f, c, ints) ==
    IF ints = <<>> THEN f
    ELSE Store([f EXCEPT ![3 * (c - 1) + Head(ints)[1]] = Head(ints)[2]],
               c, Tail(ints))

\* sscanf(buffer, <pattern pat>, &f[..]...): the number of conversions and
\* the index vector after the assignments sscanf made
RECURSIVE ScanFrom(_, _, _, _, _)
ScanFrom(pat, toks, f, c, k) ==
    IF c > 3 \/ c > Len(toks) THEN [n |-> 0, f |-> f]
    ELSE IF c <= k
    THEN LET r == ScanFrom(pat, toks, Store(f, c, CornerInts(pat, toks[c])),
                           c + 1, k)
         IN [n |-> Len(CornerInts(pat, toks[c])) + r.n, f |-> r.f]
    ELSE [n |-> Len(PartialInts(pat, toks[c])),
          f |-> Store(f, c, PartialInts(pat, toks[c]))]

ScanFace(pat, toks, f) == ScanFrom(pat, toks, f, 1, FullMatches(pat, toks, 1))

\* sscanf(buffer, "f %s %s %s %s", ...) : number of tokens, at most 4
ScanTokens(toks) == IF Len(toks) > 4 THEN 4 ELSE Len(toks)

\* the chain of the three sscanf calls of Load(): ok and the final f
ParseFace(toks) ==
    LET r1 == ScanFace(1, toks, ZeroF)
        r2 == ScanFace(2, toks, r1.f)
        r3 == ScanFace(3, toks, r2.f)
    IN IF r1.n = 9 THEN [ok |-> TRUE, f |-> r1.f]
       ELSE IF r2.n = 6 THEN [ok |-> TRUE, f |-> r2.f]
       ELSE IF r3.n = 3 THEN [ok |-> TRUE, f |-> r3.f]
       ELSE [ok |-> FALSE, f |-> r3.f]

\* vec[i - 1] of a std::vector with the 1-based file index i
InRange(vec, i) == i \in 1..Len(vec)
At(vec, i) == IF InRange(vec, i) THEN vec[i] ELSE GarbageValue


\* ------------------------------------------------------ MTL lines (input)
\* kw: leading characters; name: the %s field ("" when missing); nf: number
\* of float fields; col: their values (tenths).
MtlLine(kw, name, nf, col, long) ==
    [kw |-> kw, name |-> name, nf |-> nf, col |-> col, long |-> long]

EmptyMtlLine == MtlLine("", "", 0, <<>>, FALSE)

MtlLines ==
    {EmptyMtlLine,
     MtlLine("#", "", 0, <<>>, TRUE),
     MtlLine("illum", "", 1, <<2>>, FALSE),
     MtlLine("newmtl", "A", 0, <<>>, FALSE),
     MtlLine("newmtl", "", 0, <<>>, FALSE),
     MtlLine("Ka", "", 3, <<10, 10, 10>>, FALSE),
     MtlLine("Kd", "", 3, <<10, 0, 0>>, FALSE),
     MtlLine("Kd", "", 2, <<10, 0>>, FALSE),
     MtlLine("Ks", "", 3, <<0, 0, 0>>, FALSE),
     MtlLine("Ns", "", 1, <<5>>, FALSE),
     MtlLine("map_Kd", "t.png", 0, <<>>, FALSE),
     MtlLine("shader", "s.glsl", 0, <<>>, FALSE)}

\* string(buf, 2) and string(buf, 6) of an MTL line
MtlPrefix2(l) == IF l.kw \in {"Ka", "Kd", "Ks", "Ns"} THEN l.kw ELSE ""
MtlPrefix6(l) == IF l.kw \in {"newmtl", "map_Kd", "shader"} THEN l.kw ELSE ""

\* --------------------------------------------------------------- materials
\* new Material(): the colours are whatever the engine's constructor sets
\* (<<>> here), the texture and shader handles are null.
NewMaterial ==
    [ambient |-> <<>>, diffuse |-> <<>>, specular |-> <<>>, shininess |-> 0,
     texr |-> NULL, shad |-> NULL]

\* the defaults LoadMaterialFile assigns after newmtl (tenths)
DefaultAmbient == <<2, 2, 2, 10>>
DefaultDiffuse == <<8, 8, 8, 10>>
DefaultSpecular == <<10, 10, 10, 10>>
DefaultShininess == 0

\* Vector<4,float> with components 0..2 assigned from tmpcol
SetRGB(old, col) == <<col[1], col[2], col[3], old[4]>>

\* std::map::insert(make_pair(name, id)): an existing key keeps its value
MapInsert(map, name, id) ==
    IF name \in DOMAIN map THEN map ELSE (name :> id) @@ map

\* ------------------------------------------------------------------- state
VARIABLES
    locale,        \* the process-wide LC_NUMERIC locale
    lconv,         \* decimal_point of the static struct localeconv() filled
    entryLocale,   \* history: the locale when the current/last Load() began
    paths,         \* DirectoryManager's search path
    file,          \* this->file
    faces,         \* this->faces: [isNull, set]
    node,          \* this->node
    materials,     \* this->materials: name -> material id
    heap,          \* the Material objects allocated, by id
    pc,            \* "idle", "obj", "mtllib", "mtl", "crashed", "destroyed"
    exc,           \* how the last call of Load() left: "none" or an exception
    reads,         \* getline calls made so far
    in,            \* Load: the OBJ stream
    line,          \* Load: line counter
    mat,           \* Load: the active material
    defaultMaterial,
    vert, norm, texc,  \* Load: the raw streams
    ss,            \* Load: the names left on the mtllib line
    min,           \* LoadMaterialFile: the MTL stream
    mline,         \* LoadMaterialFile: line counter
    m,             \* LoadMaterialFile: the current material
    objfile,       \* LoadMaterialFile: the saved OBJ file name
    log,           \* the warnings the last step sent to the logger
    opened,        \* the paths the last step passed to File::Open
    ret            \* what the last step returned from GetSceneNode ("-": none)

process == <<locale, lconv, entryLocale, paths>>
object == <<file, faces, node, materials, heap>>
loadLocals == <<in, line, mat, defaultMaterial, vert, norm, texc, ss>>
mtlLocals == <<min, mline, m, objfile>>
vars == <<process, object, pc, exc, reads, loadLocals, mtlLocals, log,
          opened, ret>>

NullFaces == [isNull |-> TRUE, set |-> <<>>]

\* OBJResource::OBJResource(file): file(file), faces(NULL); node is left
\* uninitialized.
Init ==
    /\ locale \in Locales
    /\ lconv = "."
    /\ entryLocale = locale
    /\ paths = {}
    /\ file = ObjPath
    /\ faces = NullFaces
    /\ node = UNINIT
    /\ materials = <<>>
    /\ heap = <<>>
    /\ pc = "idle"
    /\ exc = "none"
    /\ reads = 0
    /\ in = GoodStream
    /\ line = 0
    /\ mat = NoMat
    /\ defaultMaterial = NoMat
    /\ vert = <<>> /\ norm = <<>> /\ texc = <<>>
    /\ ss = <<>>
    /\ min = GoodStream
    /\ mline = 0
    /\ m = NoMat
    /\ objfile = ObjPath
    /\ log = <<>>
    /\ opened = <<>>
    /\ ret = "-"

\* Error(line, msg): one warning tagged with this->file
WarningArg(f, l, msg, arg) == [file |-> f, line |-> l, msg |-> msg, arg |-> arg]
Warning(f, l, msg) == WarningArg(f, l, msg, "")

\* the dead locals of a finished call, in a fixed state
ResetLoadLocals ==
    /\ in' = GoodStream /\ line' = 0 /\ mat' = NoMat
    /\ defaultMaterial' = NoMat
    /\ vert' = <<>> /\ norm' = <<>> /\ texc' = <<>> /\ ss' = <<>>

ResetMtlLocals ==
    /\ min' = GoodStream /\ mline' = 0 /\ m' = NoMat
    /\ objfile' = ObjPath

\* ------------------------------------------------------- OBJResource::Load
\* lines 213-217: localeconv, setlocale, and the return when already loaded
LoadAlreadyLoaded ==
    /\ pc = "idle"
    /\ ~faces.isNull
    /\ entryLocale' = locale
    /\ lconv' = DecimalPoint(locale)
    /\ locale' = setlocale(locale, "C")
    /\ exc' = "none"
    /\ log' = <<>> /\ opened' = <<>> /\ ret' = "-"
    /\ UNCHANGED <<paths, object, pc, reads, loadLocals, mtlLocals>>

\* lines 213-219 when File::Open fails: the exception leaves Load()
LoadOpenFails ==
    /\ pc = "idle"
    /\ faces.isNull
    /\ entryLocale' = locale
    /\ lconv' = DecimalPoint(locale)
    /\ locale' = setlocale(locale, "C")
    /\ opened' = <<file>>
    /\ exc' = "ResourceException"
    /\ log' = <<>> /\ ret' = "-"
    /\ UNCHANGED <<paths, object, pc, reads, loadLocals, mtlLocals>>

\* lines 213-233: the file opens, the face set and the locals are created
LoadBegin ==
    /\ pc = "idle"
    /\ faces.isNull
    /\ reads < MaxRead
    /\ entryLocale' = locale
    /\ lconv' = DecimalPoint(locale)
    /\ locale' = setlocale(locale, "C")
    /\ opened' = <<file>>
    /\ faces' = [isNull |-> FALSE, set |-> <<>>]
    /\ heap' = Append(heap, NewMaterial)
    /\ defaultMaterial' = Len(heap) + 1
    /\ in' = GoodStream /\ line' = 0 /\ mat' = NoMat
    /\ vert' = <<>> /\ norm' = <<>> /\ texc' = <<>> /\ ss' = <<>>
    /\ pc' = "obj"
    /\ exc' = "none"
    /\ log' = <<>> /\ ret' = "-"
    /\ UNCHANGED <<paths, file, node, materials, reads, mtlLocals>>


\* lines 240-349: which branch of the if/else chain takes the line
ObjDispatch(buf, gcount) ==
    IF gcount <= 2 \/ FirstChar(buf) \in {" ", "#", "g", "s"} THEN "ignored"
    ELSE IF Prefix2(buf) = "v " THEN "v"
    ELSE IF Prefix2(buf) = "vt" THEN "vt"
    ELSE IF Prefix2(buf) = "vn" THEN "vn"
    ELSE IF Prefix2(buf) = "f " THEN "f"
    ELSE IF Prefix6(buf) = "mtllib" THEN "mtllib"
    ELSE IF Prefix6(buf) = "usemtl" THEN "usemtl"
    ELSE "unsupported"

\* lines 236-238: the loop test, getline and line++ of one iteration that
\* dispatches to branch kind; g is the result of getline
ObjRead(kind, g) ==
    /\ pc = "obj"
    /\ ~in.eof
    /\ reads < MaxRead
    /\ ObjDispatch(g.buffer, g.gcount) = kind
    /\ reads' = reads + 1
    /\ in' = g.in
    /\ line' = line + 1
    /\ opened' = <<>> /\ ret' = "-"

NextObjLines == ObjLines(Len(vert), Len(norm), Len(texc))

\* lines 241-245: short lines, blanks, comments, groups, smoothing groups
ObjIgnoredOn(l, last) ==
        /\ ObjRead("ignored", getline(in, l, last))
        /\ log' = <<>>
        /\ UNCHANGED <<process, object, pc, exc, mat, defaultMaterial, vert,
                       norm, texc, ss, mtlLocals>>

\* lines 248-253
ObjVertexOn(l, last) ==
        /\ ObjRead("v", getline(in, l, last))
        /\ IF l.nf >= 3
           THEN vert' = Append(vert, l.val) /\ log' = <<>>
           ELSE vert' = vert
                /\ log' = <<Warning(file, line + 1, "Invalid vertex")>>
        /\ UNCHANGED <<process, object, pc, exc, mat, defaultMaterial, norm,
                       texc, ss, mtlLocals>>

\* lines 256-261
ObjTexcOn(l, last) ==
        /\ ObjRead("vt", getline(in, l, last))
        /\ IF l.nf >= 2
           THEN texc' = Append(texc, l.val) /\ log' = <<>>
           ELSE texc' = texc
                /\ log' = <<Warning(file, line + 1,
                                    "Invalid texture coordinate")>>
        /\ UNCHANGED <<process, object, pc, exc, mat, defaultMaterial, vert,
                       norm, ss, mtlLocals>>

\* lines 264-269
ObjNormalOn(l, last) ==
        /\ ObjRead("vn", getline(in, l, last))
        /\ IF l.nf >= 3
           THEN norm' = Append(norm, l.val) /\ log' = <<>>
           ELSE norm' = norm
                /\ log' = <<Warning(file, line + 1, "Invalid vertex normal")>>
        /\ UNCHANGED <<process, object, pc, exc, mat, defaultMaterial, vert,
                       texc, ss, mtlLocals>>

\* lines 289-294: an index of the Face constructor's arguments is outside
\* its vector (undefined behaviour inside the try block)
BadVertNorm(f, vs, ns) ==
    \E i \in {1, 4, 7} : ~InRange(vs, f[i]) \/ ~InRange(ns, f[i + 2])

\* lines 301-303: a texture index is outside texc (undefined behaviour)
BadTexc(f, ts) == \E i \in {2, 5, 8} : ~InRange(ts, f[i])

\* a Face that does not take the active material
MakeFaceUntagged(f, vs, ns, ts, mt) ==
    [vert |-> <<At(vs, f[1]), At(vs, f[4]), At(vs, f[7])>>,
     norm |-> <<At(ns, f[3]), At(ns, f[6]), At(ns, f[9])>>,
     texc |-> <<At(ts, f[2]), At(ts, f[5]), At(ts, f[8])>>,
     mat |-> NoMat]

\* lines 289-303 and 319: the Face built from index vector f
MakeFace(f, vs, ns, ts, mt) ==
    [vert |-> <<At(vs, f[1]), At(vs, f[4]), At(vs, f[7])>>,
     norm |-> <<At(ns, f[3]), At(ns, f[6]), At(ns, f[9])>>,
     texc |-> <<At(ts, f[2]), At(ts, f[5]), At(ts, f[8])>>,
     mat |-> mt]

\* lines 314-316: one warning per zero normal
RECURSIVE ZeroNormWarnings(_, _, _, _)
ZeroNormWarnings(face, i, fl, ln) ==
    IF i > 3 THEN <<>>
    ELSE (IF face.norm[i] = 0
          THEN <<WarningArg(fl, ln, "norm[i] is the zero vector",
                            <<"0", "1", "2">>[i])>>
          ELSE <<>>) \o ZeroNormWarnings(face, i + 1, fl, ln)

\* lines 272-324
ObjFaceOn(l, last) ==
        /\ ObjRead("f", getline(in, l, last))
        /\ LET r == ParseFace(l.toks)
               face == MakeFace(r.f, vert, norm, texc, mat)
           IN IF ScanTokens(l.toks) # 3
              THEN /\ log' = <<Warning(file, line + 1,
                                       "Face has not been triangulated")>>
                   /\ UNCHANGED <<faces, pc>>
              ELSE IF ~r.ok
              THEN /\ log' = <<Warning(file, line + 1, "Invalid face")>>
                   /\ UNCHANGED <<faces, pc>>
              ELSE IF ~BadVertNorm(r.f, vert, norm) /\ ~BadTexc(r.f, texc)
              THEN /\ faces' = [faces EXCEPT !.set = Append(@, face)]
                   /\ log' = ZeroNormWarnings(face, 1, file, line + 1)
                   /\ pc' = pc
              ELSE \* undefined behaviour: the build may fault, may read
                   \* whatever lies outside the vector, or (inside the try
                   \* block) may end in the catch clause
                   \/ /\ pc' = "crashed"
                      /\ log' = <<>>
                      /\ faces' = faces
                   \/ /\ faces' = [faces EXCEPT !.set = Append(@, face)]
                      /\ log' = ZeroNormWarnings(face, 1, file, line + 1)
                      /\ pc' = pc
                   \/ /\ BadVertNorm(r.f, vert, norm)
                      /\ log' = <<Warning(file, line + 1,
                                          "Invalid face. Exception")>>
                      /\ UNCHANGED <<faces, pc>>
        /\ UNCHANGED <<process, file, node, materials, heap, exc, mat,
                       defaultMaterial, vert, norm, texc, ss, mtlLocals>>

\* lines 327-332: the names on the line go to the stringstream
ObjMtllibOn(l, last) ==
        /\ ObjRead("mtllib", getline(in, l, last))
        /\ ss' = l.names
        /\ pc' = "mtllib"
        /\ log' = <<>>
        /\ UNCHANGED <<process, object, exc, mat, defaultMaterial, vert,
                       norm, texc, mtlLocals>>

\* lines 338-345: materials.find(name)
FindMaterial(map, name, dflt) ==
    IF name \in DOMAIN map THEN map[name] ELSE dflt

\* lines 335-346
ObjUsemtlOn(l, last) ==
        /\ ObjRead("usemtl", getline(in, l, last))
        /\ mat' = FindMaterial(materials, l.names[1], defaultMaterial)
        /\ log' = IF l.names[1] \in DOMAIN materials THEN <<>>
                  ELSE <<WarningArg(file, line + 1,
                                    "Material is not defined", l.names[1])>>
        /\ UNCHANGED <<process, object, pc, exc, defaultMaterial, vert, norm,
                       texc, ss, mtlLocals>>

\* line 349
ObjUnsupportedOn(l, last) ==
        /\ ObjRead("unsupported", getline(in, l, last))
        /\ log' = <<Warning(file, line + 1, "Unsupported OBJ declaration")>>
        /\ UNCHANGED <<process, object, pc, exc, mat, defaultMaterial, vert,
                       norm, texc, ss, mtlLocals>>

\* lines 352-359: end of file; lc->decimal_point is read from the static
\* struct, which setlocale may or may not have rewritten
LoadEnd ==
    /\ pc = "obj"
    /\ in.eof
    /\ node' = "NODE"
    /\ \E dp \in {lconv, DecimalPoint(locale)} :
           locale' = setlocale(locale, dp)
    /\ pc' = "idle"
    /\ exc' = "none"
    /\ ResetLoadLocals
    /\ log' = <<>> /\ opened' = <<>> /\ ret' = "-"
    /\ UNCHANGED <<lconv, entryLocale, paths, file, faces, materials, heap,
                   reads, mtlLocals>>


\* ------------------------------------------- OBJResource::LoadMaterialFile
\* line 331 and lines 81-93: the next name of the mtllib line; the file
\* opens, the OBJ file name is saved and replaced
MtlOpen ==
    /\ pc = "mtllib"
    /\ ss # <<>>
    /\ opened' = <<Join(Parent(file), Head(ss))>>
    /\ ss' = Tail(ss)
    /\ min' = GoodStream /\ mline' = 0 /\ m' = NoMat
    /\ objfile' = file
    /\ file' = Join(Parent(file), Head(ss))
    /\ pc' = "mtl"
    /\ log' = <<>> /\ ret' = "-"
    /\ UNCHANGED <<process, faces, node, materials, heap, exc, reads, in, line,
                   mat, defaultMaterial, vert, norm, texc>>

\* line 81 when File::Open fails: the exception leaves LoadMaterialFile and
\* Load(); this->file has not been replaced yet
MtlOpenFails ==
    /\ pc = "mtllib"
    /\ ss # <<>>
    /\ opened' = <<Join(Parent(file), Head(ss))>>
    /\ exc' = "ResourceException"
    /\ pc' = "idle"
    /\ ResetLoadLocals
    /\ log' = <<>> /\ ret' = "-"
    /\ UNCHANGED <<process, object, reads, mtlLocals>>

\* lines 100-193: which branch of the if/else chain takes the line
MtlDispatch(buf) ==
    IF MtlPrefix6(buf) = "newmtl" THEN "newmtl"
    ELSE IF MtlPrefix2(buf) = "Ka" THEN "Ka"
    ELSE IF MtlPrefix2(buf) = "Kd" THEN "Kd"
    ELSE IF MtlPrefix2(buf) = "Ks" THEN "Ks"
    ELSE IF MtlPrefix2(buf) = "Ns" THEN "Ns"
    ELSE IF MtlPrefix6(buf) = "map_Kd" THEN "map_Kd"
    ELSE IF MtlPrefix6(buf) = "shader" THEN "shader"
    ELSE "other"

\* getline on the MTL stream (same istream::getline)
MtlGetline(l, last) ==
    LET g == getline(min, [kw |-> l.kw, long |-> l.long], last)
    IN [in |-> g.in, buffer |-> IF g.gcount = 0 THEN EmptyMtlLine ELSE l]

\* lines 96-98: the loop test, line++ and getline of one iteration that
\* dispatches to one of the branches kinds
MtlRead(kinds, g) ==
    /\ pc = "mtl"
    /\ ~min.eof
    /\ reads < MaxRead
    /\ MtlDispatch(g.buffer) \in kinds
    /\ reads' = reads + 1
    /\ min' = g.in
    /\ mline' = mline + 1
    /\ opened' = <<>> /\ ret' = "-"
    /\ UNCHANGED <<locale, lconv, entryLocale, file, faces, node, pc, exc,
                   loadLocals, objfile>>

\* lines 106-113: the material newmtl creates
FreshMaterial ==
    [NewMaterial EXCEPT !.ambient = DefaultAmbient,
                        !.diffuse = DefaultDiffuse,
                        !.specular = DefaultSpecular,
                        !.shininess = DefaultShininess]

\* line 107
InsertMaterial(map, name, id) == MapInsert(map, name, id)

\* lines 101-115
MtlNewmtlOn(l, last) ==
        /\ MtlRead({"newmtl"}, MtlGetline(l, last))
        /\ IF l.name = ""
           THEN /\ log' = <<Warning(file, mline + 1,
                                    "Invalid newmtr declaration")>>
                /\ UNCHANGED <<m, heap, materials>>
           ELSE /\ heap' = Append(heap, FreshMaterial)
                /\ m' = Len(heap) + 1
                /\ materials' = InsertMaterial(materials, l.name, Len(heap) + 1)
                /\ log' = <<>>
        /\ paths' = paths

\* a guard that lets every directive through
NoActiveMaterialUnchecked(cur) == FALSE

\* lines 121, 133, 145, 157: no newmtl has been seen in this file
NoActiveMaterial(cur) == cur = NoMat

\* lines 124-126, 136-138, 148-150: the assignment to the current material
SetColor(hp, cur, kw, col) ==
    CASE kw = "Ka" -> [hp EXCEPT ![cur].ambient = SetRGB(@, col)]
      [] kw = "Kd" -> [hp EXCEPT ![cur].diffuse = SetRGB(@, col)]
      [] kw = "Ks" -> [hp EXCEPT ![cur].specular = SetRGB(@, col)]

\* lines 118-151
MtlColorOn(l, last) ==
        /\ MtlRead({"Ka", "Kd", "Ks"}, MtlGetline(l, last))
        /\ IF l.nf # 3
           THEN /\ log' = <<WarningArg(file, mline + 1, "Invalid declaration",
                                       l.kw)>>
                /\ heap' = heap
           ELSE IF NoActiveMaterial(m)
           THEN /\ log' = <<WarningArg(file, mline + 1,
                               "section without newmtr declaration", l.kw)>>
                /\ heap' = heap
           ELSE /\ heap' = SetColor(heap, m, l.kw, l.col)
                /\ log' = <<>>
        /\ UNCHANGED <<m, materials, paths>>

\* lines 154-161
MtlNsOn(l, last) ==
        /\ MtlRead({"Ns"}, MtlGetline(l, last))
        /\ IF l.nf # 1
           THEN /\ log' = <<WarningArg(file, mline + 1, "Invalid declaration",
                                       l.kw)>>
                /\ heap' = heap
           ELSE IF NoActiveMaterial(m)
           THEN /\ log' = <<WarningArg(file, mline + 1,
                               "section without newmtr declaration", l.kw)>>
                /\ heap' = heap
           ELSE /\ heap' = [heap EXCEPT ![m].shininess = l.col[1]]
                /\ log' = <<>>
        /\ UNCHANGED <<m, materials, paths>>

\* lines 168 and 183: no current material, or the handle is already set
HandleTaken(hp, cur, field) ==
    \/ cur = NoMat
    \/ (IF field = "map_Kd" THEN hp[cur].texr ELSE hp[cur].shad) # NULL

\* lines 165-192: map_Kd and shader
MtlResourceOn(l, last) ==
        /\ MtlRead({"map_Kd", "shader"}, MtlGetline(l, last))
        /\ IF l.name = ""
           THEN /\ log' = <<WarningArg(file, mline + 1, "Invalid declaration",
                                       l.kw)>>
                /\ UNCHANGED <<heap, paths>>
           ELSE IF HandleTaken(heap, m, l.kw)
           THEN /\ log' = <<WarningArg(file, mline + 1,
                     "Multiple sections appear before a newmtr declaration",
                     l.kw)>>
                /\ UNCHANGED <<heap, paths>>
           ELSE /\ paths' = paths \cup {Parent(objfile)}
                /\ heap' = IF l.kw = "map_Kd"
                           THEN [heap EXCEPT ![m].texr = l.name]
                           ELSE [heap EXCEPT ![m].shad = l.name]
                /\ log' = <<>>
        /\ UNCHANGED <<m, materials>>

\* line 194: every other line
MtlOtherOn(l, last) ==
        /\ MtlRead({"other"}, MtlGetline(l, last))
        /\ log' = <<>>
        /\ UNCHANGED <<m, materials, heap, paths>>

\* this->file left as LoadMaterialFile set it
RestoredFileKept(saved, current) == current

\* line 197: what this->file is reset to when the loop ends
RestoredFile(saved, current) == saved

\* lines 196-198, then line 330: end of the MTL file
MtlReturn ==
    /\ pc = "mtl"
    /\ min.eof
    /\ file' = RestoredFile(objfile, file)
    /\ pc' = IF ss = <<>> THEN "obj" ELSE "mtllib"
    /\ ResetMtlLocals
    /\ log' = <<>> /\ opened' = <<>> /\ ret' = "-"
    /\ UNCHANGED <<process, faces, node, materials, heap, exc, reads,
                   loadLocals>>

\* ------------------------------------------------------- other operations
\* lines 366-369
Unload ==
    /\ pc = "idle"
    /\ faces' = NullFaces
    /\ node' = NULL
    /\ log' = <<>> /\ opened' = <<>> /\ ret' = "-"
    /\ UNCHANGED <<process, file, materials, heap, pc, exc, reads, loadLocals,
                   mtlLocals>>

\* the values a read of pointer member p can yield
ReadPointer(p) == IF p = UNINIT THEN {NULL, GARBAGE} ELSE {p}

\* lines 385-387
GetSceneNode ==
    /\ pc = "idle"
    /\ ret' \in ReadPointer(node)
    /\ log' = <<>> /\ opened' = <<>>
    /\ UNCHANGED <<process, object, pc, exc, reads, loadLocals, mtlLocals>>

\* lines 54-56: the destructor calls Unload()
Destroy ==
    /\ pc = "idle"
    /\ faces' = NullFaces
    /\ node' = NULL
    /\ pc' = "destroyed"
    /\ log' = <<>> /\ opened' = <<>> /\ ret' = "-"
    /\ UNCHANGED <<process, file, materials, heap, exc, reads, loadLocals,
                   mtlLocals>>

\* the host program changes the process-wide numeric locale between calls
HostSetLocale ==
    /\ pc = "idle"
    /\ \E l \in Locales \ {locale} : locale' = l
    /\ log' = <<>> /\ opened' = <<>> /\ ret' = "-"
    /\ UNCHANGED <<lconv, entryLocale, paths, object, pc, exc, reads,
                   loadLocals, mtlLocals>>

\* one iteration of a line loop, over every line the file may hold next
ObjIgnored == \E l \in NextObjLines : \E last \in Lasts(l) : ObjIgnoredOn(l, last)
ObjVertex == \E l \in NextObjLines : \E last \in Lasts(l) : ObjVertexOn(l, last)
ObjTexc == \E l \in NextObjLines : \E last \in Lasts(l) : ObjTexcOn(l, last)
ObjNormal == \E l \in NextObjLines : \E last \in Lasts(l) : ObjNormalOn(l, last)
ObjFace == \E l \in NextObjLines : \E last \in Lasts(l) : ObjFaceOn(l, last)
ObjMtllib == \E l \in NextObjLines : \E last \in Lasts(l) : ObjMtllibOn(l, last)
ObjUsemtl == \E l \in NextObjLines : \E last \in Lasts(l) : ObjUsemtlOn(l, last)
ObjUnsupported == \E l \in NextObjLines : \E last \in Lasts(l) : ObjUnsupportedOn(l, last)
MtlNewmtl == \E l \in MtlLines : \E last \in Lasts(l) : MtlNewmtlOn(l, last)
MtlColor == \E l \in MtlLines : \E last \in Lasts(l) : MtlColorOn(l, last)
MtlNs == \E l \in MtlLines : \E last \in Lasts(l) : MtlNsOn(l, last)
MtlResource == \E l \in MtlLines : \E last \in Lasts(l) : MtlResourceOn(l, last)
MtlOther == \E l \in MtlLines : \E last \in Lasts(l) : MtlOtherOn(l, last)

Next ==
    \/ LoadAlreadyLoaded \/ LoadOpenFails \/ LoadBegin
    \/ ObjIgnored \/ ObjVertex \/ ObjTexc \/ ObjNormal \/ ObjFace
    \/ ObjMtllib \/ ObjUsemtl \/ ObjUnsupported \/ LoadEnd
    \/ MtlOpen \/ MtlOpenFails
    \/ MtlNewmtl \/ MtlColor \/ MtlNs \/ MtlResource \/ MtlOther \/ MtlReturn
    \/ Unload \/ GetSceneNode \/ Destroy \/ HostSetLocale

Spec == Init /\ [][Next]_vars


\* ================================================================ claims
\* one iteration of the OBJ line loop on line l
ObjLineOn(l, last) ==
    \/ ObjIgnoredOn(l, last) \/ ObjVertexOn(l, last) \/ ObjTexcOn(l, last)
    \/ ObjNormalOn(l, last) \/ ObjFaceOn(l, last) \/ ObjMtllibOn(l, last)
    \/ ObjUsemtlOn(l, last) \/ ObjUnsupportedOn(l, last)

\* one iteration of the MTL line loop on line l
MtlLineOn(l, last) ==
    \/ MtlNewmtlOn(l, last) \/ MtlColorOn(l, last) \/ MtlNsOn(l, last)
    \/ MtlResourceOn(l, last) \/ MtlOtherOn(l, last)

\* a step by which control leaves Load()
LeavesLoad == LoadAlreadyLoaded \/ LoadOpenFails \/ LoadEnd \/ MtlOpenFails

\* a face line that is triangulated and scans, with all nine indices inside
\* the raw streams declared so far
ScansAsFace(l) == l.kw = "f " /\ ScanTokens(l.toks) = 3 /\ ParseFace(l.toks).ok

IndicesInRange(l) ==
    /\ ~BadVertNorm(ParseFace(l.toks).f, vert, norm)
    /\ ~BadTexc(ParseFace(l.toks).f, texc)

\* C1: every call of Load(), whatever path it leaves by, leaves the
\* process-wide numeric locale as it was immediately before the call.
C1_LocaleRestored == [][LeavesLoad => locale' = entryLocale']_vars

\* C2: a face line with an index that is 0 or beyond the entries declared
\* so far is rejected for that face only: no face is added, exactly one
\* warning is reported, and the line loop goes on.
C2_BadFaceRejected ==
    [][\A l \in NextObjLines : \A last \in Lasts(l) :
          (ObjFaceOn(l, last) /\ ScansAsFace(l) /\ ~IndicesInRange(l))
              => (faces' = faces /\ Len(log') = 1 /\ pc' = "obj")]_vars

\* C3: a newmtl whose name is already in the material table replaces the
\* entry: afterwards the table maps the name to the material this newmtl
\* created, which holds the format defaults.
C3_NewmtlReplaces ==
    [][\A l \in MtlLines : \A last \in Lasts(l) :
          (MtlNewmtlOn(l, last) /\ l.name \in DOMAIN materials)
              => (/\ DOMAIN materials' = DOMAIN materials
                  /\ materials'[l.name] = m'
                  /\ heap'[materials'[l.name]] = FreshMaterial)]_vars

\* C4: Load() on a loaded resource is a no-op: it opens no file and leaves
\* the face set, the scene node, the material table and the process state
\* as they were; Unload() drops the geometry without opening the file.
C4_LoadIdempotent ==
    [][/\ LoadAlreadyLoaded =>
             (UNCHANGED <<locale, paths, object>> /\ opened' = <<>>)
       /\ Unload => (faces'.isNull /\ opened' = <<>>)]_vars

\* C5: whenever the resource is not loaded, GetSceneNode() returns the null
\* handle; it returns a constructed node only while the resource is loaded.
C5_NullNodeWhenUnloaded ==
    /\ (ret # "-" /\ faces.isNull) => ret = NULL
    /\ ret = "NODE" => ~faces.isNull

\* C6: each line of the OBJ file adds exactly one face (three output
\* vertices, appended in file order) when it is a triangulated face line
\* whose indices refer to declared entries, and adds nothing otherwise.
C6_OneFacePerValidLine ==
    [][\A l \in NextObjLines : \A last \in Lasts(l) :
          ObjLineOn(l, last) =>
              IF ScansAsFace(l) /\ IndicesInRange(l)
              THEN /\ Len(faces'.set) = Len(faces.set) + 1
                   /\ SubSeq(faces'.set, 1, Len(faces.set)) = faces.set
              ELSE faces' = faces]_vars

\* C7: a Ka, Kd, Ks, Ns, map_Kd or shader line read before the first newmtl
\* of its MTL file (the current material is null from the opening of the
\* file until a newmtl line) reports one warning and changes neither the
\* material table nor any material.
C7_NoMaterialNoChange ==
    [][/\ (pc = "mtl" /\ m = NoMat /\ ~min.fail) =>
             \A l \in MtlLines : \A last \in Lasts(l) :
                 (/\ l.kw \in {"Ka", "Kd", "Ks", "Ns", "map_Kd", "shader"}
                  /\ MtlLineOn(l, last))
                     => (/\ Len(log') = 1
                         /\ materials' = materials
                         /\ heap' = heap
                         /\ m' = NoMat)
       /\ (pc = "mtllib" /\ pc' = "mtl") => m' = NoMat
       /\ (pc = "mtl" /\ pc' = "mtl" /\ m' # m) => MtlNewmtl]_vars

\* a directive has just been refused for want of a newmtl, in an MTL file
\* read while the table already holds a material of an earlier file
C7_Witness ==
    /\ pc = "mtl" /\ m = NoMat /\ mline = 1
    /\ DOMAIN materials # {}
    /\ Len(log) = 1
    /\ log[1].msg = "section without newmtr declaration"
    /\ log[1].file = Join(Parent(ObjPath), "b.mtl")

\* a stream that failed before end of file: no later getline extracts
\* anything and eof() stays false
Stalled ==
    \/ pc \in {"obj", "mtllib", "mtl"} /\ in.fail /\ ~in.eof
    \/ pc = "mtl" /\ min.fail /\ ~min.eof

\* C8: whatever the lines of the files contain, the line loops keep
\* advancing towards end of file: no line leaves a loop unable to end.
C8_LoopsAdvance == ~Stalled

C10_FaceTaggedWithActive ==
    [][/\ (pc = "obj" /\ faces' # faces) =>
             /\ ObjFace
             /\ Len(faces'.set) = Len(faces.set) + 1
             /\ faces'.set[Len(faces'.set)].mat = mat
       /\ (pc = "idle" /\ pc' = "obj") => mat' = NoMat
       /\ (pc \in {"obj", "mtllib", "mtl"} /\ pc' \in {"obj", "mtllib", "mtl"})
             => /\ mat' # mat => ObjUsemtl
                /\ \A i \in 1..Len(faces.set) :
                      /\ i <= Len(faces'.set)
                      /\ faces'.set[i].mat = faces.set[i].mat]_vars

\* a face resolved from declared entries was added with no active material
\* and a usemtl line has since bound one
C10_Witness ==
    /\ pc = "obj"
    /\ mat # NoMat
    /\ \E i \in 1..Len(faces.set) :
          /\ faces.set[i].mat = NoMat
          /\ faces.set[i].vert = <<1, 1, 1>>
          /\ faces.set[i].texc = <<1, 1, 1>>
          /\ faces.set[i].norm[1] # GarbageValue

====
